---- MODULE Spec2Model ----
(***************************************************************************)
(* A model of register.py: the provisioning of signal-cli (release lookup, *)
(* download, extraction, runtime detection, launcher patch) and the        *)
(* operator dialogue that registers, verifies and links a device.          *)
(*                                                                         *)
(* Python strings whose characters the program inspects (endswith, lower,  *)
(* "in", isdigit, strip, re.sub) are sequences of one-character strings.   *)
(* Strings that are only compared or concatenated are TLA+ strings.        *)
(* An Optional value is a sequence of length at most one: <<>> is None.    *)
(***************************************************************************)
EXTENDS Integers, Sequences, FiniteSets, TLC

VARIABLES
    \* ---- GithubUtils.get_latest_release on its own
    assets, latest, relDone,
    \* ---- JavaUtils.get_java_version_of_file on its own
    jar, jar_opens, major_result, jarDone,
    \* ---- java_version_from_major and the strip of download_openjdk on their own
    major_in, label, version, resPc,
    \* ---- the run of the program: SignalCLISetup.setup and __main__
    pc, exitCode, calls, latest_release, zipped_path, signal_cli_path,
    java_path, batch_path, os_name, bat_isfile, script, scriptBefore,
    patchRet, patchLog, major_version, java_version, download_path,
    phone_number, captcha_link, code, qr_path, attempted, invoked

relVars == <<assets, latest, relDone>>
jarVars == <<jar, jar_opens, major_result, jarDone>>
resVars == <<major_in, label, version, resPc>>
setupVars == <<calls, latest_release, zipped_path, signal_cli_path, java_path,
               batch_path, os_name, bat_isfile, script, scriptBefore, patchRet,
               patchLog, major_version, java_version, download_path>>
dialogueVars == <<phone_number, captcha_link, code, qr_path, attempted, invoked>>
runVars == <<pc, exitCode, setupVars, dialogueVars>>
vars == <<relVars, jarVars, resVars, runVars>>

----------------------------------------------------------------------------
(* Bounds of the model *)

MaxAssets == 3
MaxEntries == 3
MaxMajor == 100
MaxLines == 3

----------------------------------------------------------------------------
(* Python values *)

None == <<>>
Some(v) == <<v>>

\* bool(x) of an Optional string: None and "" are falsy
Truthy(x) == x # None /\ x[1] # ""

\* f"{x}" of an Optional string
Format(x) == IF x = None THEN "None" ELSE x[1]

UpperToLower ==
    [A |-> "a", B |-> "b", C |-> "c", D |-> "d", E |-> "e", F |-> "f", G |-> "g",
     H |-> "h", I |-> "i", J |-> "j", K |-> "k", L |-> "l", M |-> "m", N |-> "n",
     O |-> "o", P |-> "p", Q |-> "q", R |-> "r", S |-> "s", T |-> "t", U |-> "u",
     V |-> "v", W |-> "w", X |-> "x", Y |-> "y", Z |-> "z"]

LowerChar(c) == IF c \in DOMAIN UpperToLower THEN UpperToLower[c] ELSE c

\* str.lower()
Lower(s) == [i \in 1..Len(s) |-> LowerChar(s[i])]

\* str.endswith(suffix)
EndsWith(s, suffix) ==
    /\ Len(suffix) <= Len(s)
    /\ SubSeq(s, Len(s) - Len(suffix) + 1, Len(s)) = suffix

\* str.startswith(prefix)
StartsWith(s, prefix) ==
    /\ Len(prefix) <= Len(s)
    /\ SubSeq(s, 1, Len(prefix)) = prefix

\* sub in s
Contains(s, sub) ==
    \E i \in 1..(Len(s) - Len(sub) + 1) : SubSeq(s, i, i + Len(sub) - 1) = sub

Whitespace == {" ", "\t", "\n", "\r"}

RECURSIVE LStrip(_)
LStrip(s) == IF s # <<>> /\ Head(s) \in Whitespace THEN LStrip(Tail(s)) ELSE s

RECURSIVE RStrip(_)
RStrip(s) ==
    IF s # <<>> /\ s[Len(s)] \in Whitespace THEN RStrip(SubSeq(s, 1, Len(s) - 1)) ELSE s

\* str.strip()
Strip(s) == RStrip(LStrip(s))

Min(S) == CHOOSE x \in S : \A y \in S : x <= y

\* the sequences over S of length at most n
SeqsUpTo(S, n) == UNION {[1..k -> S] : k \in 0..n}

----------------------------------------------------------------------------
(* GithubUtils.get_latest_release *)

TarGz == <<".","t","a","r",".","g","z">>
Linux == <<"l","i","n","u","x">>

AcceptAssetCaseSensitive(asset) ==
    EndsWith(asset.name, TarGz) /\ ~Contains(asset.name, Linux)

\* the condition of line 43
AcceptAsset(asset) ==
    EndsWith(asset.name, TarGz) /\ ~Contains(Lower(asset.name), Linux)

\* the for loop of lines 42-45, from the i-th asset on
RECURSIVE GetLatestReleaseFrom(_, _)
GetLatestReleaseFrom(a, i) ==
    IF i > Len(a) THEN None
    ELSE IF AcceptAsset(a[i]) THEN Some(a[i])
    ELSE GetLatestReleaseFrom(a, i + 1)

GetLatestRelease(a) == GetLatestReleaseFrom(a, 1)

\* asset names a release may carry
AssetNames ==
    { <<"s","i","g","n","a","l","-","c","l","i","-","1",".","0","-","l","i","n","u","x",".","t","a","r",".","g","z">>,
      <<"s","i","g","n","a","l","-","c","l","i","-","1",".","0",".","t","a","r",".","g","z">>,
      <<"s","i","g","n","a","l","-","c","l","i","-","1",".","0","-","L","i","n","u","x",".","t","a","r",".","g","z">>,
      <<"s","i","g","n","a","l","-","c","l","i","-","1",".","0",".","z","i","p">>,
      <<"s","i","g","n","a","l","-","c","l","i","-","1",".","0",".","t","a","r",".","g","z",".","a","s","c">> }

Assets == {[name |-> n] : n \in AssetNames}

AssetLists == SeqsUpTo(Assets, MaxAssets)

InitRelease ==
    /\ assets \in AssetLists
    /\ latest = None
    /\ relDone = FALSE

IdleRelease ==
    /\ assets = <<>>
    /\ latest = None
    /\ relDone = FALSE

GetLatestReleaseCall ==
    /\ ~relDone
    /\ latest' = GetLatestRelease(assets)
    /\ relDone' = TRUE
    /\ UNCHANGED <<assets, jarVars, resVars, runVars>>

----------------------------------------------------------------------------
(* JavaUtils.get_java_version_of_file *)

ClassSuffix == <<".","c","l","a","s","s">>

\* 0xCAFEBABE as the four bytes '>I' reads, most significant first
\* (the value itself does not fit TLC's 32-bit integers)
MAGIC == <<202, 254, 186, 190>>

\* the I field of struct.unpack('>IHH', header), as its four bytes
UnpackMagic(header) == SubSeq(header, 1, 4)

UnpackMajorLittleEndian(header) == header[8] * 256 + header[7]

\* the second H field of struct.unpack('>IHH', header)
UnpackMajor(header) == header[7] * 256 + header[8]

\* class_file.read(8)
Read8(data) == SubSeq(data, 1, IF Len(data) < 8 THEN Len(data) ELSE 8)

\* the for loop of lines 123-132, from the i-th entry on; falling out of the
\* loop returns None
RECURSIVE ScanEntries(_, _)
ScanEntries(entries, i) ==
    IF i > Len(entries) THEN None
    ELSE IF ~EndsWith(entries[i].name, ClassSuffix) THEN ScanEntries(entries, i + 1)
    ELSE LET header == Read8(entries[i].data) IN
         IF Len(header) < 8 THEN ScanEntries(entries, i + 1)
         ELSE IF UnpackMagic(header) # MAGIC THEN ScanEntries(entries, i + 1)
         ELSE Some(UnpackMajor(header))

\* opens is FALSE when zipfile.ZipFile raises (lines 133-135)
GetJavaVersionOfFile(entries, opens) ==
    IF ~opens THEN None ELSE ScanEntries(entries, 1)

JarEntries ==
    { [name |-> <<"A",".","c","l","a","s","s">>, data |-> <<202,254,186,190,0,0,0,52>>],
      [name |-> <<"B",".","c","l","a","s","s">>, data |-> <<202,254,186,190,0,3,1,45>>],
      [name |-> <<"C",".","c","l","a","s","s">>, data |-> <<202,254,186,190,0,0,0,61,0,16>>],
      [name |-> <<"D",".","c","l","a","s","s">>, data |-> <<202,254,186,190,0,0>>],
      [name |-> <<"E",".","c","l","a","s","s">>, data |-> <<80,75,3,4,0,0,0,50>>],
      [name |-> <<"F",".","c","l","a","s","s">>, data |-> <<>>],
      [name |-> <<"r","e","a","d","m","e",".","t","x","t">>, data |-> <<202,254,186,190,0,0,0,55>>],
      [name |-> <<"G",".","c","l","a","s","s","x">>, data |-> <<202,254,186,190,0,0,0,49>>] }

Jars == SeqsUpTo(JarEntries, MaxEntries)

InitJar ==
    /\ jar \in Jars
    /\ jar_opens \in BOOLEAN
    /\ major_result = None
    /\ jarDone = FALSE

IdleJar ==
    /\ jar = <<>>
    /\ jar_opens = FALSE
    /\ major_result = None
    /\ jarDone = FALSE

GetJavaVersionOfFileCall ==
    /\ ~jarDone
    /\ major_result' = GetJavaVersionOfFile(jar, jar_opens)
    /\ jarDone' = TRUE
    /\ UNCHANGED <<jar, jar_opens, relVars, resVars, runVars>>

----------------------------------------------------------------------------
(* JavaUtils.java_version_from_major and the strip of download_openjdk *)

version_mapping ==
       45 :> <<"J","a","v","a"," ","1",".","1">> @@
       46 :> <<"J","a","v","a"," ","1",".","2">> @@
       47 :> <<"J","a","v","a"," ","1",".","3">> @@
       48 :> <<"J","a","v","a"," ","1",".","4">> @@
       49 :> <<"J","a","v","a"," ","5">> @@
       50 :> <<"J","a","v","a"," ","6">> @@
       51 :> <<"J","a","v","a"," ","7">> @@
       52 :> <<"J","a","v","a"," ","8">> @@
       53 :> <<"J","a","v","a"," ","9">> @@
       54 :> <<"J","a","v","a"," ","1","0">> @@
       55 :> <<"J","a","v","a"," ","1","1">> @@
       56 :> <<"J","a","v","a"," ","1","2">> @@
       57 :> <<"J","a","v","a"," ","1","3">> @@
       58 :> <<"J","a","v","a"," ","1","4">> @@
       59 :> <<"J","a","v","a"," ","1","5">> @@
       60 :> <<"J","a","v","a"," ","1","6">> @@
       61 :> <<"J","a","v","a"," ","1","7">> @@
       62 :> <<"J","a","v","a"," ","1","8">> @@
       63 :> <<"J","a","v","a"," ","1","9">> @@
       64 :> <<"J","a","v","a"," ","2","0">> @@
       65 :> <<"J","a","v","a"," ","2","1">> @@
       66 :> <<"J","a","v","a"," ","2","2">> @@
       67 :> <<"J","a","v","a"," ","2","3">> @@
       68 :> <<"J","a","v","a"," ","2","4">> @@
       69 :> <<"J","a","v","a"," ","2","5">> @@
       70 :> <<"J","a","v","a"," ","2","6">> @@
       71 :> <<"J","a","v","a"," ","2","7">> @@
       72 :> <<"J","a","v","a"," ","2","8">> @@
       73 :> <<"J","a","v","a"," ","2","9">> @@
       74 :> <<"J","a","v","a"," ","3","0">>

UnknownJavaVersion ==
    <<"U","n","k","n","o","w","n"," ","J","a","v","a"," ","v","e","r","s","i","o","n">>

\* version_mapping.get(major_version, "Unknown Java version")
JavaVersionFromMajor(m) ==
    IF m \in DOMAIN version_mapping THEN version_mapping[m] ELSE UnknownJavaVersion

DecimalChars == {"0", "1", "2", "3", "4", "5", "6", "7", "8", "9"}

IsDecimalChar(c) == c \in DecimalChars

\* re.sub(r'\D', '', version), line 153
StripNonDigits(s) == SelectSeq(s, IsDecimalChar)

InitResolve ==
    /\ major_in \in 0..MaxMajor
    /\ label = <<>>
    /\ version = <<>>
    /\ resPc = "major"

IdleResolve ==
    /\ major_in = 0
    /\ label = <<>>
    /\ version = <<>>
    /\ resPc = "major"

JavaVersionFromMajorCall ==
    /\ resPc = "major"
    /\ label' = JavaVersionFromMajor(major_in)
    /\ resPc' = "label"
    /\ UNCHANGED <<major_in, version, relVars, jarVars, runVars>>

DownloadOpenjdkStrip ==
    /\ resPc = "label"
    /\ version' = StripNonDigits(label)
    /\ resPc' = "version"
    /\ UNCHANGED <<major_in, label, relVars, jarVars, runVars>>

----------------------------------------------------------------------------
(* SignalCLISetup.modify_batch_file *)

\* A file on disk is a sequence of lines [text, eol]: the text before the line
\* terminator and the terminator itself ("" on a last line without one).
\* A line as Python holds it is [text, nl]: nl says the string ends with "\n".

TargetText == "set JAVA_EXE=%JAVA_HOME%/bin/java.exe"

\* line 261
original_line == [text |-> TargetText, nl |-> TRUE]

\* line 262
modified_line(custom_java_exe) ==
    [text |-> "set JAVA_EXE=" \o Format(custom_java_exe), nl |-> TRUE]

\* os.linesep
LineSep(os) == IF os = "nt" THEN "\r\n" ELSE "\n"

\* file.readlines() in text mode: every line terminator is read as "\n"
ReadLines(file) ==
    [i \in 1..Len(file) |-> [text |-> file[i].text, nl |-> file[i].eol # ""]]

\* file.write(line) in text mode: "\n" is written as os.linesep
WriteLine(line, os) ==
    [text |-> line.text, eol |-> IF line.nl THEN LineSep(os) ELSE ""]

FirstMatch(lines) == Min({i \in 1..Len(lines) : lines[i] = original_line})

PatchLinesFirstOnly(lines, custom_java_exe) ==
    [i \in 1..Len(lines) |->
        IF lines[i] = original_line /\ i = FirstMatch(lines)
        THEN modified_line(custom_java_exe)
        ELSE lines[i]]

\* the for loop of lines 269-274: what is written for each line read
PatchLines(lines, custom_java_exe) ==
    [i \in 1..Len(lines) |->
        IF lines[i] = original_line THEN modified_line(custom_java_exe) ELSE lines[i]]

\* the replaced flag of lines 265-272
Replaced(lines) == \E i \in 1..Len(lines) : lines[i] = original_line

\* What modify_batch_file leaves behind: the file, the value it returns (the
\* function has no return statement with a value: None on every path) and the
\* message it prints.
ModifyBatchFile(file, isfile, custom_java_exe, os) ==
    IF ~isfile
    THEN [file |-> file, ret |-> None, log |-> "does not exist"]
    ELSE LET lines == ReadLines(file)
             out == PatchLines(lines, custom_java_exe)
         IN  [file |-> [i \in 1..Len(out) |-> WriteLine(out[i], os)],
              ret |-> None,
              log |-> IF Replaced(lines) THEN "modified" ELSE "line not found"]

\* the runtime binary check_and_setup_java finds (line 313)
RuntimePath == "assets/openjdk/jdk/bin/java.exe"

\* the lines a launcher script is made of: the target, another line, and the
\* line an earlier run of the program left in place of the target
LineTexts == {TargetText, "@echo off", "set JAVA_EXE=" \o RuntimePath}

MkScript(texts, eol, final_newline) ==
    [i \in 1..Len(texts) |->
        [text |-> texts[i],
         eol |-> IF i = Len(texts) /\ ~final_newline THEN "" ELSE eol]]

Scripts ==
    {MkScript(t, e, f) : t \in SeqsUpTo(LineTexts, MaxLines),
                         e \in {"\n", "\r\n"}, f \in BOOLEAN}

----------------------------------------------------------------------------
(* The run: SignalCLISetup.setup *)

DepDir == << <<"a","s","s","e","t","s">> >>
SignalCliDir == DepDir \o << <<"s","i","g","n","a","l","-","c","l","i">> >>
BatTail == << <<"b","i","n">>, <<"s","i","g","n","a","l","-","c","l","i",".","b","a","t">> >>

ArchiveSuffixes ==
    { <<".","t","a","r",".","g","z">>, <<".","t","a","r",".","b","z","2">>,
      <<".","z","i","p">>, <<".","r","a","r">>, <<".","7","z">> }

\* os.path.basename of a path kept as its components
Basename(path) == path[Len(path)]

\* FileUtils.get_name_without_extension
GetNameWithoutExtension(path) ==
    LET base == Basename(path)
        hit == {suf \in ArchiveSuffixes : EndsWith(base, suf)}
    IN  IF hit = {} THEN base
        ELSE SubSeq(base, 1, Len(base) - Len(CHOOSE suf \in hit : TRUE))

\* bool(path) of an Optional path
TruthyPath(x) == x # None /\ x[1] # <<>>

Exit(status) ==
    /\ pc' = "exited"
    /\ exitCode' = Some(status)

Called(stage, ok) == calls' = Append(calls, [stage |-> stage, ok |-> ok])

fileVars == <<bat_isfile, script, scriptBefore>>
patchOut == <<patchRet, patchLog>>
javaTmp == <<major_version, java_version, download_path>>

InitRun ==
    /\ pc = "start"
    /\ exitCode = None
    /\ calls = <<>>
    /\ latest_release = None
    /\ zipped_path = None
    /\ signal_cli_path = None
    /\ java_path = None
    /\ batch_path = None
    /\ os_name \in {"nt", "posix"}
    /\ bat_isfile = FALSE
    /\ script = <<>>
    /\ scriptBefore = <<>>
    /\ patchRet = None
    /\ patchLog = ""
    /\ major_version = None
    /\ java_version = None
    /\ download_path = None
    /\ phone_number = <<>>
    /\ captcha_link = <<>>
    /\ code = <<>>
    /\ qr_path = <<>>
    /\ attempted = <<>>
    /\ invoked = <<>>

\* lines 196, 215-218
CreateDirectories ==
    /\ pc = "start"
    /\ pc' = "get_latest_release"
    /\ Called("create_directories", TRUE)
    /\ UNCHANGED <<exitCode, latest_release, zipped_path, signal_cli_path, java_path,
                   batch_path, os_name, fileVars, patchOut, javaTmp, dialogueVars,
                   relVars, jarVars, resVars>>

\* lines 197-198, 220-222, 39-45: the release API answers with a list of assets
\* or raises; without a release setup() falls off its end and returns None
SetupGetLatestRelease ==
    /\ pc = "get_latest_release"
    /\ \E raises \in BOOLEAN, a \in AssetLists :
         IF raises
         THEN /\ Exit(1)
              /\ Called("get_latest_release", FALSE)
              /\ UNCHANGED latest_release
         ELSE /\ latest_release' = GetLatestRelease(a)
              /\ Called("get_latest_release", latest_release' # None)
              /\ pc' = IF latest_release' # None THEN "download_signal_cli" ELSE "main_check"
              /\ UNCHANGED exitCode
    /\ UNCHANGED <<zipped_path, signal_cli_path, java_path, batch_path, os_name,
                   fileVars, patchOut, javaTmp, dialogueVars, relVars, jarVars, resVars>>

\* lines 199-200, 224-230, 48-67
DownloadSignalCli ==
    /\ pc = "download_signal_cli"
    /\ \E exists \in BOOLEAN, status_code \in {200, 404} :
         LET download_dir == DepDir \o <<latest_release[1].name>> IN
         /\ zipped_path' = IF exists \/ status_code = 200 THEN Some(download_dir) ELSE None
         /\ Called("download_signal_cli", zipped_path' # None)
         /\ pc' = IF TruthyPath(zipped_path') THEN "extract_signal_cli" ELSE "main_check"
    /\ UNCHANGED <<exitCode, latest_release, signal_cli_path, java_path, batch_path,
                   os_name, fileVars, patchOut, javaTmp, dialogueVars,
                   relVars, jarVars, resVars>>

\* lines 201-202, 232-248, 78-85: the directory is there already, or the
\* extraction makes it, or it does not (exit(1), or tarfile raises); what the
\* directory holds at bin/signal-cli.bat is what the archive or an earlier run put
ExtractSignalCli ==
    /\ pc = "extract_signal_cli"
    /\ \E dir_exists \in BOOLEAN, isfile \in BOOLEAN, s \in Scripts :
         LET final_signal_cli_dir ==
                 SignalCliDir \o <<GetNameWithoutExtension(zipped_path[1])>> IN
         IF ~dir_exists
         THEN /\ Exit(1)
              /\ Called("extract_signal_cli", FALSE)
              /\ UNCHANGED <<signal_cli_path, fileVars>>
         ELSE /\ signal_cli_path' = Some(final_signal_cli_dir)
              /\ bat_isfile' = isfile
              /\ script' = IF isfile THEN s ELSE <<>>
              /\ scriptBefore' = script'
              /\ Called("extract_signal_cli", TRUE)
              /\ pc' = "check_and_setup_java"
              /\ UNCHANGED exitCode
    /\ UNCHANGED <<latest_release, zipped_path, java_path, batch_path, os_name,
                   patchOut, javaTmp, dialogueVars, relVars, jarVars, resVars>>

\* check_and_setup_java returns p to setup(), which goes on to line 204
JavaReturn(p) ==
    /\ java_path' = p
    /\ Called("check_and_setup_java", p # None)
    /\ pc' = "modify_batch_file"
    /\ major_version' = None
    /\ java_version' = None
    /\ download_path' = None

\* lines 203, 283-292, 320-322, 110-115
FindJarAndReadVersion ==
    /\ pc = "check_and_setup_java"
    /\ \E found \in BOOLEAN, j \in Jars, opens \in BOOLEAN :
         LET mv == GetJavaVersionOfFile(j, opens) IN
         IF ~found \/ mv = None
         THEN JavaReturn(None)
         ELSE /\ major_version' = mv
              /\ java_version' = Some(JavaVersionFromMajor(mv[1]))
              /\ pc' = "download_openjdk"
              /\ UNCHANGED <<java_path, calls, download_path>>
    /\ UNCHANGED <<exitCode, latest_release, zipped_path, signal_cli_path, batch_path,
                   os_name, fileVars, patchOut, dialogueVars, relVars, jarVars, resVars>>

\* lines 294-298, 152-184
DownloadOpenjdk ==
    /\ pc = "download_openjdk"
    /\ \E url_found \in BOOLEAN, exists \in BOOLEAN, status_code \in {200, 404} :
         LET stripped == StripNonDigits(java_version[1])
             path == DepDir \o << <<"o","p","e","n","j","d","k","-">> \o stripped
                                  \o <<".","z","i","p">> >>
         IN  IF url_found /\ (exists \/ status_code = 200)
             THEN /\ download_path' = Some(path)
                  /\ pc' = "extract_openjdk"
                  /\ UNCHANGED <<java_path, calls, major_version, java_version>>
             ELSE JavaReturn(None)
    /\ UNCHANGED <<exitCode, latest_release, zipped_path, signal_cli_path, batch_path,
                   os_name, fileVars, patchOut, dialogueVars, relVars, jarVars, resVars>>

\* lines 300-319, 88-107: extract_zip raises on an archive it cannot read
ExtractOpenjdk ==
    /\ pc = "extract_openjdk"
    /\ \E raises \in BOOLEAN, java_exists \in BOOLEAN :
         IF raises
         THEN /\ Exit(1)
              /\ Called("check_and_setup_java", FALSE)
              /\ UNCHANGED <<java_path, javaTmp>>
         ELSE /\ JavaReturn(IF java_exists THEN Some(RuntimePath) ELSE None)
              /\ UNCHANGED exitCode
    /\ UNCHANGED <<latest_release, zipped_path, signal_cli_path, batch_path,
                   os_name, fileVars, patchOut, dialogueVars, relVars, jarVars, resVars>>

\* line 204, lines 250-280
ModifyBatchFileCall ==
    /\ pc = "modify_batch_file"
    /\ LET res == ModifyBatchFile(script, bat_isfile, java_path, os_name) IN
         /\ script' = res.file
         /\ patchRet' = res.ret
         /\ patchLog' = res.log
         /\ Called("modify_batch_file", res.log = "modified")
    /\ pc' = "setup_return"
    /\ UNCHANGED <<exitCode, latest_release, zipped_path, signal_cli_path, java_path,
                   batch_path, os_name, bat_isfile, scriptBefore, javaTmp, dialogueVars,
                   relVars, jarVars, resVars>>

\* lines 206-213
SetupReturn ==
    /\ pc = "setup_return"
    /\ IF Truthy(java_path)
       THEN /\ batch_path' = Some(signal_cli_path[1] \o BatTail)
            /\ pc' = "main_check"
            /\ UNCHANGED exitCode
       ELSE /\ Exit(1)
            /\ UNCHANGED batch_path
    /\ UNCHANGED <<calls, latest_release, zipped_path, signal_cli_path, java_path,
                   os_name, fileVars, patchOut, javaTmp, dialogueVars,
                   relVars, jarVars, resVars>>

----------------------------------------------------------------------------
(* The run: __main__ and SignalCLIInteraction *)

Skip == <<"s","k","i","p">>

\* U+00B2, a digit that is not a decimal: str.isdigit() is true of it and
\* str.isdecimal() is false
SuperscriptTwo == "SUPERSCRIPT TWO"

\* the characters c with c.isdigit()
DigitChars == DecimalChars \cup {SuperscriptTwo}

\* str.isdigit(): every character is a digit and there is at least one
IsDigit(s) == Len(s) > 0 /\ \A i \in 1..Len(s) : s[i] \in DigitChars

IsQuote(c) == c = "\""
NotQuote(c) == ~IsQuote(c)

\* str.replace('"', '')
RemoveQuotes(s) == SelectSeq(s, NotQuote)

IsSkipCaseSensitive(s) == s = Skip

\* the tests of lines 403 and 407, negated: s.lower() == "skip"
IsSkip(s) == Lower(s) = Skip

\* line 336
RegisterFailed(error) ==
    Contains(error, <<"F","a","i","l","e","d"," ","t","o"," ","r","e","g","i","s","t","e","r">>)

\* line 353
VerifyFailed(error) ==
    Contains(error, <<"V","e","r","i","f","y"," ","e","r","r","o","r">>)

AddDeviceFailedFormatOnly(error) ==
    Contains(error, <<"i","n","v","a","l","i","d"," ","f","o","r","m","a","t">>)

\* line 376
AddDeviceFailed(error) ==
    \/ Contains(error, <<"i","n","v","a","l","i","d"," ","f","o","r","m","a","t">>)
    \/ Contains(error, <<"f","a","i","l","e","d">>)

\* subprocess.run(command) with command a string and no shell: on Windows the
\* launcher is started when it is there; on POSIX the whole string is taken as
\* the name of the program, which no file has. Otherwise FileNotFoundError.
CanSpawn == os_name = "nt" /\ bat_isfile

PhoneInputs ==
    { <<"+","4","9","1","5","1">>, <<" ","4","9","1","5","1"," ">> }

CaptchaInputs ==
    { <<"s","k","i","p">>, <<" ","S","k","i","p"," ">>,
      <<"s","i","g","n","a","l","c","a","p","t","c","h","a",":","/","/","t","o","k","e","n">> }

CodeInputs ==
    { <<"s","k","i","p">>, <<"1","2","3","4","5","6">>, <<"a","b","c","1","2","3">>,
      <<>>, <<"1","2", SuperscriptTwo>>, <<"1","2","3"," ">> }

QrInputs ==
    { <<"s","k","i","p">>, <<"\"","q","r",".","p","n","g","\"">> }

\* what the client may write to stderr
StderrSamples ==
    { <<>>,
      <<"F","a","i","l","e","d"," ","t","o"," ","r","e","g","i","s","t","e","r",":"," ","4","2","9","\n">>,
      <<"V","e","r","i","f","y"," ","e","r","r","o","r",":"," ","4","0","3">>,
      <<"L","i","n","k"," ","f","a","i","l","e","d">>,
      <<"u","r","i"," ","h","a","s"," ","i","n","v","a","l","i","d"," ","f","o","r","m","a","t">>,
      <<"W","A","R","N"," ","F","a","i","l","e","d",":"," ","t","i","m","e","o","u","t">> }

\* line 394-396
PromptPhone ==
    /\ pc = "prompt_phone"
    /\ \E inp \in PhoneInputs :
         LET p == Strip(inp) IN
         phone_number' = IF ~StartsWith(p, <<"+">>) THEN <<"+">> \o p ELSE p
    /\ pc' = "prompt_captcha"
    /\ UNCHANGED <<exitCode, setupVars, captcha_link, code, qr_path, attempted, invoked,
                   relVars, jarVars, resVars>>

\* lines 386-390
MainCheck ==
    /\ pc = "main_check"
    /\ IF ~TruthyPath(batch_path)
       THEN Exit(1)
       ELSE pc' = "prompt_phone" /\ UNCHANGED exitCode
    /\ UNCHANGED <<setupVars, dialogueVars, relVars, jarVars, resVars>>

\* lines 402-403
PromptCaptcha ==
    /\ pc = "prompt_captcha"
    /\ \E inp \in CaptchaInputs : captcha_link' = Strip(inp)
    /\ pc' = IF ~IsSkip(captcha_link') THEN "register" ELSE "prompt_code"
    /\ UNCHANGED <<exitCode, setupVars, phone_number, code, qr_path, attempted, invoked,
                   relVars, jarVars, resVars>>

\* the test each operation makes of the stderr of its command
StderrFailed(cmd, error) ==
    CASE cmd = "register" -> RegisterFailed(error)
      [] cmd = "verify" -> VerifyFailed(error)
      [] cmd = "addDevice" -> AddDeviceFailed(error)

\* subprocess.run of the client's command cmd, then the test of its stderr:
\* exit(1), or on to the step next
Invoke(cmd, next) ==
    IF ~CanSpawn
    THEN /\ invoked' = Append(invoked, [cmd |-> cmd, spawned |-> FALSE, stderr |-> <<>>])
         /\ Exit(1)
    ELSE \E err \in StderrSamples :
           /\ invoked' = Append(invoked, [cmd |-> cmd, spawned |-> TRUE, stderr |-> err])
           /\ IF StderrFailed(cmd, Strip(err))
              THEN Exit(1)
              ELSE pc' = next /\ UNCHANGED exitCode

\* lines 404, 330-341
Register ==
    /\ pc = "register"
    /\ attempted' = Append(attempted, "register")
    /\ Invoke("register", "prompt_code")
    /\ UNCHANGED <<setupVars, phone_number, captcha_link, code, qr_path,
                   relVars, jarVars, resVars>>

\* lines 406-407
PromptCode ==
    /\ pc = "prompt_code"
    /\ \E inp \in CodeInputs : code' = Strip(inp)
    /\ pc' = IF ~IsSkip(code') THEN "verify" ELSE "prompt_qr"
    /\ UNCHANGED <<exitCode, setupVars, phone_number, captcha_link, qr_path, attempted,
                   invoked, relVars, jarVars, resVars>>

\* lines 408, 343-358
Verify ==
    /\ pc = "verify"
    /\ attempted' = Append(attempted, "verify")
    /\ IF ~IsDigit(code)
       THEN Exit(1) /\ UNCHANGED invoked
       ELSE Invoke("verify", "prompt_qr")
    /\ UNCHANGED <<setupVars, phone_number, captcha_link, code, qr_path,
                   relVars, jarVars, resVars>>

\* lines 410-414
PromptQr ==
    /\ pc = "prompt_qr"
    /\ \E inp \in QrInputs : qr_path' = RemoveQuotes(Strip(inp))
    /\ pc' = "add_device"
    /\ UNCHANGED <<exitCode, setupVars, phone_number, captcha_link, code, attempted,
                   invoked, relVars, jarVars, resVars>>

\* lines 415, 360-381: the path is there or not; the image decodes to a URI, to
\* an empty payload (exit(1)), or Image.open or decode(img)[0] raises
AddDevice ==
    /\ pc = "add_device"
    /\ attempted' = Append(attempted, "addDevice")
    /\ \E exists \in BOOLEAN, decoded \in {"uri", "empty", "raises"} :
         IF ~exists \/ decoded # "uri"
         THEN Exit(1) /\ UNCHANGED invoked
         ELSE Invoke("addDevice", "finish")
    /\ UNCHANGED <<setupVars, phone_number, captcha_link, code, qr_path,
                   relVars, jarVars, resVars>>

\* lines 417-418: the program runs off its end
Finish ==
    /\ pc = "finish"
    /\ Exit(0)
    /\ UNCHANGED <<setupVars, dialogueVars, relVars, jarVars, resVars>>

----------------------------------------------------------------------------
(* Specifications *)

\* the run of the program
Init == InitRun /\ IdleRelease /\ IdleJar /\ IdleResolve

Next ==
    \/ CreateDirectories
    \/ SetupGetLatestRelease
    \/ DownloadSignalCli
    \/ ExtractSignalCli
    \/ FindJarAndReadVersion
    \/ DownloadOpenjdk
    \/ ExtractOpenjdk
    \/ ModifyBatchFileCall
    \/ SetupReturn
    \/ MainCheck
    \/ PromptPhone
    \/ PromptCaptcha
    \/ Register
    \/ PromptCode
    \/ Verify
    \/ PromptQr
    \/ AddDevice
    \/ Finish

Spec == Init /\ [][Next]_vars

IdleRun ==
    /\ InitRun
    /\ os_name = "nt"

\* get_latest_release applied to every list of assets within the bounds
InitR == InitRelease /\ IdleJar /\ IdleResolve /\ IdleRun
SpecRelease == InitR /\ [][GetLatestReleaseCall]_vars

\* get_java_version_of_file applied to every bundle within the bounds
InitJ == InitJar /\ IdleRelease /\ IdleResolve /\ IdleRun
SpecJar == InitJ /\ [][GetJavaVersionOfFileCall]_vars

\* java_version_from_major, then the strip of download_openjdk, for every major
\* within the bounds
InitV == InitResolve /\ IdleRelease /\ IdleJar /\ IdleRun
NextResolve == JavaVersionFromMajorCall \/ DownloadOpenjdkStrip
SpecResolve == InitV /\ [][NextResolve]_vars

----------------------------------------------------------------------------
(* Properties *)

StageOrder ==
    <<"create_directories", "get_latest_release", "download_signal_cli",
      "extract_signal_cli", "check_and_setup_java", "modify_batch_file">>

\* the component calls made so far are the first ones of StageOrder, in order
StagesInOrder ==
    /\ Len(calls) <= Len(StageOrder)
    /\ \A i \in 1..Len(calls) : calls[i].stage = StageOrder[i]

\* modify_batch_file has returned
PatchDone == patchLog # ""

\* a line of a file on disk that readlines() gives as the target literal plus "\n"
IsTargetLine(l) == l.text = TargetText /\ l.eol # ""

TargetLines(file) == {i \in 1..Len(file) : IsTargetLine(file[i])}

\* C1: the stages of setup() run in their order and a failed stage is the last
\* one called; in particular modify_batch_file is not called, and the launcher
\* script is left as it was, when check_and_setup_java returned no path.
C1_FailedStageIsLast ==
    /\ StagesInOrder
    /\ \A i \in 1..Len(calls) : ~calls[i].ok => i = Len(calls)
    /\ (Len(calls) >= 5 /\ ~calls[5].ok) => script = scriptBefore

DialoguePcs ==
    {"prompt_phone", "prompt_captcha", "register", "prompt_code", "verify",
     "prompt_qr", "add_device", "finish"}

\* C2: the dialogue is reached, and the run can end with exit code 0, only when
\* every provisioning stage succeeded, the location of the launcher script at
\* <client dir>/bin/signal-cli.bat included.
C2_DialogueOnlyAfterLauncherFound ==
    (pc \in DialoguePcs \/ exitCode = Some(0)) =>
        /\ Len(calls) = Len(StageOrder)
        /\ \A i \in 1..5 : calls[i].ok
        /\ bat_isfile

EndsInAnArchiveSuffix(asset) ==
    /\ \E suf \in ArchiveSuffixes : EndsWith(asset.name, suf)
    /\ ~Contains(Lower(asset.name), Linux)

EndsInTarGz(asset) ==
    /\ EndsWith(asset.name, <<".","t","a","r",".","g","z">>)
    /\ ~Contains(Lower(asset.name), <<"l","i","n","u","x">>)

\* C3 as stated: get_latest_release returns the first asset whose name ends in
\* one of .tar.gz, .tar.bz2, .zip, .rar, .7z and does not contain "linux" in
\* lower case, and None when there is none.
C3_FirstArchiveAsset ==
    relDone =>
        LET Q == {i \in 1..Len(assets) : EndsInAnArchiveSuffix(assets[i])} IN
        latest = IF Q = {} THEN None ELSE Some(assets[Min(Q)])

\* C3 as amended: get_latest_release returns the first asset whose name ends in
\* .tar.gz and does not contain "linux" in lower case, and None when there is
\* none.
C3_FirstTarGzAsset ==
    relDone =>
        LET Q == {i \in 1..Len(assets) : EndsInTarGz(assets[i])} IN
        latest = IF Q = {} THEN None ELSE Some(assets[Min(Q)])

\* the list of the example: the linux archive first, then the plain one, picked
C3_Witness ==
    /\ relDone
    /\ Len(assets) = 2
    /\ Contains(assets[1].name, Linux)
    /\ EndsWith(assets[1].name, TarGz)
    /\ latest = Some(assets[2])

\* an entry the reader accepts: a .class name, eight header bytes, the magic
ValidClassEntry(e) ==
    /\ EndsWith(e.name, <<".","c","l","a","s","s">>)
    /\ Len(e.data) >= 8
    /\ e.data[1] = 202 /\ e.data[2] = 254 /\ e.data[3] = 186 /\ e.data[4] = 190

\* C4: get_java_version_of_file returns the big-endian major version (header
\* bytes 6-7) of the first entry, in stored order, that has the .class suffix
\* and the magic number; entries without the suffix, with fewer than 8 header
\* bytes or with another magic are skipped; None when no entry qualifies.
C4_FirstValidClassMajor ==
    jarDone =>
        LET Q == {i \in 1..Len(jar) : ValidClassEntry(jar[i])} IN
        IF jar_opens /\ Q # {}
        THEN major_result = Some(jar[Min(Q)].data[7] * 256 + jar[Min(Q)].data[8])
        ELSE major_result = None

\* a truncated entry and one with a wrong magic precede the entry that is read,
\* whose major version takes both bytes
C4_Witness ==
    /\ jarDone /\ jar_opens
    /\ Len(jar) = 3
    /\ EndsWith(jar[1].name, ClassSuffix) /\ Len(jar[1].data) < 8
    /\ EndsWith(jar[2].name, ClassSuffix) /\ Len(jar[2].data) >= 8
    /\ ~ValidClassEntry(jar[2])
    /\ ValidClassEntry(jar[3])
    /\ major_result = Some(301)

PatchedText == "set JAVA_EXE=" \o Format(java_path)

\* C5 as stated: modify_batch_file replaces only the first line equal to the
\* target literal plus line terminator; every other line, a later target line
\* included, keeps its text and its place.
C5_OnlyFirstTargetReplaced ==
    (PatchDone /\ bat_isfile) =>
        /\ Len(script) = Len(scriptBefore)
        /\ \A i \in 1..Len(script) :
             IF TargetLines(scriptBefore) # {} /\ i = Min(TargetLines(scriptBefore))
             THEN script[i].text = PatchedText
             ELSE script[i].text = scriptBefore[i].text

\* C5 as amended: modify_batch_file replaces every line equal to the target
\* literal plus line terminator by "set JAVA_EXE=<runtime path>"; every other
\* line keeps its text and its place; the terminators are written in the
\* platform's convention.
C5_EveryTargetReplaced ==
    (PatchDone /\ bat_isfile) =>
        /\ Len(script) = Len(scriptBefore)
        /\ \A i \in 1..Len(script) :
             /\ script[i].text =
                    IF i \in TargetLines(scriptBefore)
                    THEN PatchedText ELSE scriptBefore[i].text
             /\ script[i].eol =
                    IF scriptBefore[i].eol = "" THEN ""
                    ELSE IF os_name = "nt" THEN "\r\n" ELSE "\n"

\* a script with the target line twice and another line has been patched
C5_Witness ==
    /\ PatchDone /\ bat_isfile
    /\ Cardinality(TargetLines(scriptBefore)) = 2
    /\ Len(scriptBefore) = 3
    /\ \A i \in TargetLines(scriptBefore) : script[i].text = PatchedText

\* C6: when no line of the script equals the target literal, modify_batch_file
\* leaves the lines as they are and gives its caller an outcome other than
\* the outcome of a successful replacement.
C6_NotFoundReportedDistinctly ==
    (PatchDone /\ bat_isfile /\ TargetLines(scriptBefore) = {}) =>
        /\ Len(script) = Len(scriptBefore)
        /\ \A i \in 1..Len(script) : script[i].text = scriptBefore[i].text
        /\ patchRet #
             ModifyBatchFile(<<[text |-> TargetText, eol |-> "\n"]>>, TRUE,
                             java_path, os_name).ret

Attempts(op) == Cardinality({i \in 1..Len(attempted) : attempted[i] = op})
Invocations(cmd) == Cardinality({i \in 1..Len(invoked) : invoked[i].cmd = cmd})

AllDecimal(s) == Len(s) > 0 /\ \A i \in 1..Len(s) : s[i] \in DecimalChars

\* C7: verify(code) exits with status 1 without invoking the client for every
\* code that is not all decimal digits (the empty code included), and invokes
\* the verify command exactly once for every all-digit code.
C7_NonDecimalRejected ==
    Attempts("verify") > 0 =>
        IF AllDecimal(code)
        THEN Invocations("verify") = 1
        ELSE pc = "exited" /\ exitCode = Some(1) /\ Invocations("verify") = 0

Operations == {"register", "verify", "addDevice"}

AtMostOnce == \A op \in Operations : Attempts(op) <= 1 /\ Invocations(op) <= 1

SaidSkip(answer) == Lower(answer) = <<"s","k","i","p">>

\* C8 as stated: each operation is attempted at most once, and the operator's
\* skip keeps any of the three from being attempted.
C8_EveryOperationSkippable ==
    /\ AtMostOnce
    /\ SaidSkip(captcha_link) => Attempts("register") = 0
    /\ SaidSkip(code) => Attempts("verify") = 0
    /\ SaidSkip(qr_path) => Attempts("addDevice") = 0

\* C8 as amended: each operation is attempted at most once; register and verify
\* are skipped by the operator's skip, addDevice cannot be; a run that ends with
\* exit code 0 has invoked addDevice and exactly those of register and verify
\* that were not skipped.
C8_RegisterAndVerifySkippable ==
    /\ AtMostOnce
    /\ SaidSkip(captcha_link) => Attempts("register") = 0
    /\ SaidSkip(code) => Attempts("verify") = 0
    /\ exitCode = Some(0) =>
         /\ Invocations("register") = (IF SaidSkip(captcha_link) THEN 0 ELSE 1)
         /\ Invocations("verify") = (IF SaidSkip(code) THEN 0 ELSE 1)
         /\ Invocations("addDevice") = 1

\* register and verify skipped, the device added, exit code 0
C8_Witness ==
    /\ exitCode = Some(0)
    /\ SaidSkip(captcha_link) /\ SaidSkip(code)
    /\ Len(invoked) = 1 /\ invoked[1].cmd = "addDevice"

Rank(cmd) == CASE cmd = "register" -> 1 [] cmd = "verify" -> 2 [] cmd = "addDevice" -> 3

\* the stderr of the invocation e holds the failure phrase of its command
KnownFailure(e) ==
    CASE e.cmd = "register" ->
           Contains(e.stderr, <<"F","a","i","l","e","d"," ","t","o"," ","r","e","g","i","s","t","e","r">>)
      [] e.cmd = "verify" ->
           Contains(e.stderr, <<"V","e","r","i","f","y"," ","e","r","r","o","r">>)
      [] e.cmd = "addDevice" ->
           \/ Contains(e.stderr, <<"i","n","v","a","l","i","d"," ","f","o","r","m","a","t">>)
           \/ Contains(e.stderr, <<"f","a","i","l","e","d">>)

\* C9: the client's commands are invoked in the order register, verify,
\* addDevice; a command whose stderr holds its failure phrase is the last one
\* invoked and the process has exited with status 1; a command whose stderr
\* holds no such phrase counts as a success: the run does not exit with status 1
\* before another operation is attempted.
C9_OrderedAndFailureTerminal ==
    /\ \A i, j \in 1..Len(invoked) : i < j => Rank(invoked[i].cmd) < Rank(invoked[j].cmd)
    /\ \A i \in 1..Len(invoked) :
         (invoked[i].spawned /\ KnownFailure(invoked[i])) =>
             i = Len(invoked) /\ pc = "exited" /\ exitCode = Some(1)
    /\ (/\ invoked # <<>>
        /\ invoked[Len(invoked)].spawned
        /\ ~KnownFailure(invoked[Len(invoked)])
        /\ attempted[Len(attempted)] = invoked[Len(invoked)].cmd) =>
             exitCode # Some(1)

\* register wrote a text with no known phrase and the run went on to verify,
\* whose failure phrase ended it
C9_Witness ==
    /\ Len(invoked) = 2
    /\ invoked[1].cmd = "register" /\ invoked[1].stderr # <<>>
    /\ invoked[2].cmd = "verify" /\ KnownFailure(invoked[2])
    /\ pc = "exited" /\ exitCode = Some(1)

VersionNumberOf(m) == StripNonDigits(JavaVersionFromMajor(m))

\* C10: the version number recovered from the label of a major of the table is
\* not empty and belongs to no other major of the table, and a major outside
\* the table gets the version number of no major of the table.
C10_VersionNumberIdentifiesMajor ==
    resPc = "version" =>
        /\ major_in \in DOMAIN version_mapping => version # <<>>
        /\ \A m \in DOMAIN version_mapping : m # major_in => VersionNumberOf(m) # version

====
